---- MODULE Spec2Model ----
(***************************************************************************)
(* Meeting-processing orchestration, entity resolution and referential     *)
(* integrity of the ai-meeting-notes backend.                              *)
(*                                                                         *)
(* SpecProcess    : MeetingProcessor.process_meeting, the three-way fan-out*)
(*                  over the completion provider and its fan-in.           *)
(* SpecPipeline   : POST /meetings/process from the transcript to the      *)
(*                  stored rows, beside deletions of meetings.             *)
(* SpecSequential : EntityManager.create_or_get_entities, one request      *)
(*                  after the other.                                       *)
(* SpecWorkers    : the same run by two requests side by side.             *)
(* SpecResolve    : the same, with entities created and renamed by hand.   *)
(* SpecAssociate  : one processing request beside manual links and unlinks.*)
(* Spec           : the entity store (entities, meetings, meeting_entities)*)
(*                  under one processing request, manual links and         *)
(*                  unlinks, and the delete paths.                         *)
(* SpecLowUsage   : the low-usage query over entities created over time.   *)
(* SpecTypes      : entity types created and deleted beside entities.      *)
(* SpecTerminal   : entities deleted, then resolved, created and linked    *)
(*                  again.                                                 *)
(* SpecCheckup    : the check-up page of the frontend over the store.      *)
(* SpecMeetingDetail : the create-and-add flow of the meeting page.        *)
(***************************************************************************)
EXTENDS Integers, Sequences, FiniteSets, TLC

None == "None"

\* Variables of MeetingProcessor.process_meeting
VARIABLES
    ppc,          \* position of process_meeting: "idle", "gather", "returned", "raised"
    transcript,   \* the transcript argument of the current invocation
    task,         \* outcome of each derivation coroutine handed to asyncio.gather
    presult,      \* <<r>> when the ProcessingResult r was returned, else <<>>
    perror,       \* the exception raised to the caller, or None
    entities_text \* the message content extract_entities last received

procVars == <<ppc, transcript, task, presult, perror, entities_text>>

\* Variables of the entity store and of the requests that use it
VARIABLES
    entities,          \* table entities: id -> [name, type_slug, description]
    nextEntityId,      \* the AUTOINCREMENT counter of entities.id
    meetings,          \* table meetings: the ids of the rows
    nextMeetingId,     \* the AUTOINCREMENT counter of meetings.id
    meeting_entities,  \* junction table: rows <<meeting_id, entity_id>>
    action_items,      \* table action_items: rows <<meeting_id, n>>, the n-th item of the meeting
    req,               \* the processing requests in flight, one per worker
    bulk,              \* the bulk-delete request in flight and its report; missed
                       \* records the ids whose db.delete_entity returned false,
                       \* which the handler itself does not keep
    resp               \* the response to the last DELETE /entities/{id}

storeVars == <<entities, nextEntityId, meetings, nextMeetingId, meeting_entities,
               action_items>>
vars == <<entities, nextEntityId, meetings, nextMeetingId, meeting_entities,
          action_items, req, bulk, resp>>

\* The database clock and the reply of the low-usage query
VARIABLES
    now,          \* CURRENT_TIMESTAMP, in seconds
    low_usage     \* the rows GET /entities/low-usage last returned, in order

\* The entity_types table and a running delete_entity_type call
VARIABLES
    entity_types, \* slug -> [is_system]
    tdel          \* [pc, type, result] of DatabaseManager.delete_entity_type

typeVars == <<entity_types, tdel>>

\* State of the check-up page (CheckupPage.tsx)
VARIABLES
    query,              \* the ['entities', 'low-usage'] query: "loading", "success", "stale"
    selectedEntityIds,  \* useState<Set<number>>
    filterType,         \* useState<string>('all')
    error,              \* useState<string | null>(null)
    bulkDeleteMutation  \* [status, ids] of the useMutation

pageVars == <<query, selectedEntityIds, filterType, error, bulkDeleteMutation>>

\* State of the meeting page (MeetingDetailPage.tsx): the route parameter
\* id, error, createEntityMutation, addEntityMutation and the association
\* requests on their way to the server
VARIABLES
    meetingDetail

otherVars == <<now, low_usage, typeVars, pageVars, meetingDetail>>

allVars == <<procVars, vars, otherVars>>

(***************************************************************************)
(* Part 1.  MeetingProcessor.process_meeting                               *)
(***************************************************************************)

TaskNames == {"summary", "entities", "action_items"}

\* Inputs and provider outputs the model draws from.
Transcripts == {"", "Alice met Bob from Acme."}
SummaryOutputs == {"Alice met Bob.", "Acme was discussed."}
\* The content of a provider message is a sequence of tokens: words, the
\* separator "|", the blank " " and the line break "\n".
EntityOutputs ==
    {<<>>,
     <<"Acme", "|", "Company">>,
     <<"Alice", "|", "Person", "\n", "Acme", "|", "Company">>,
     <<"\n", " ", "Acme", "|", "Company", " ", "\n", " ", "\n", "\n", "Alice", "\n">>,
     <<"Apollo", " ", "|", " ", "Project", "|", "Tool">>}
ActionItemOutputs == {<<>>, <<"Bob will call Acme">>}

\* A coroutine that has not been created, is awaiting the provider, has
\* returned a value, or has raised.
NotCreated == [kind |-> "none"]
Running == [kind |-> "running", val |-> None]
Returned(v) == [kind |-> "ok", val |-> v]
Raised == [kind |-> "exc"]

SummaryPlaceholder == "Summary generation failed"

\* The characters str.strip() removes.
Whitespace == {" ", "\n"}

RECURSIVE lstrip(_)
lstrip(s) == IF s # <<>> /\ Head(s) \in Whitespace THEN lstrip(Tail(s)) ELSE s

RECURSIVE rstrip(_)
rstrip(s) ==
    IF s # <<>> /\ s[Len(s)] \in Whitespace
    THEN rstrip(SubSeq(s, 1, Len(s) - 1)) ELSE s

\* str.strip()
strip(s) == rstrip(lstrip(s))

\* str.split(sep): the pieces of s between the occurrences of sep
RECURSIVE split(_, _)
split(s, sep) ==
    IF \E i \in 1..Len(s) : s[i] = sep
    THEN LET i == CHOOSE i \in 1..Len(s) :
                     s[i] = sep /\ \A j \in 1..(i - 1) : s[j] # sep
         IN  <<SubSeq(s, 1, i - 1)>> \o split(SubSeq(s, i + 1, Len(s)), sep)
    ELSE <<s>>

\* [entity.strip() for entity in entities_text.split('\n') if entity.strip()]
\* on the stripped message content
entity_lines_keeping_blank(content) ==
    LET lines == split(strip(content), "\n")
    IN  [i \in DOMAIN lines |-> strip(lines[i])]

entity_lines(content) ==
    LET lines == split(strip(content), "\n")
        NotBlank(entity) == strip(entity) # <<>>
        kept == SelectSeq(lines, NotBlank)
    IN  [i \in DOMAIN kept |-> strip(kept[i])]

\* A coroutine finishes with outcome o: its own slot is settled and the other
\* coroutines are left as they are.
settle_cancelling_siblings(t, k, o) ==
    IF o = Raised
    THEN [j \in TaskNames |->
            IF j = k \/ t[j].kind = "running" THEN Raised ELSE t[j]]
    ELSE [t EXCEPT ![k] = o]

settle(t, k, o) == [t EXCEPT ![k] = o]

\* The await on asyncio.gather resumes when every coroutine has finished.
gather_first_completed(t) ==
    \E k \in TaskNames : t[k].kind \in {"ok", "exc"}

gather_all_finished(t) ==
    \A k \in TaskNames : t[k].kind \in {"ok", "exc"}

\* asyncio.gather(..., return_exceptions=True): never raises; every slot of
\* the result holds the coroutine's value or the exception it raised.
asyncio_gather_propagating(t) ==
    [raised |-> \E k \in TaskNames : t[k].kind = "exc", slots |-> t]

asyncio_gather(t) ==
    [raised |-> FALSE, slots |-> t]

\* "Handle individual task failures" and the construction of the result.
process_meeting_result_total_failure_raises(tr, slots) ==
    IF \A k \in TaskNames : slots[k].kind = "exc"
    THEN [raised |-> TRUE, result |-> None]
    ELSE [raised |-> FALSE,
          result |->
            [transcript |-> tr,
             summary |-> IF slots["summary"].kind = "exc"
                         THEN SummaryPlaceholder ELSE slots["summary"].val,
             entities |-> IF slots["entities"].kind = "exc"
                          THEN <<>> ELSE slots["entities"].val,
             action_items |-> IF slots["action_items"].kind = "exc"
                              THEN <<>> ELSE slots["action_items"].val]]

process_meeting_result(tr, slots) ==
    [raised |-> FALSE,
     result |->
       [transcript |-> tr,
        summary |-> IF slots["summary"].kind = "exc"
                    THEN SummaryPlaceholder ELSE slots["summary"].val,
        entities |-> IF slots["entities"].kind = "exc"
                     THEN <<>> ELSE slots["entities"].val,
        action_items |-> IF slots["action_items"].kind = "exc"
                         THEN <<>> ELSE slots["action_items"].val]]

\* if not transcript
transcript_missing_never(tr) == FALSE

transcript_missing(tr) == tr = ""

\* process_meeting up to the gather: the transcript check, then the three
\* coroutines are created and awaited together.
process_meeting_call(tr) ==
    /\ ppc # "gather"
    /\ transcript' = tr
    /\ presult' = <<>>
    /\ entities_text' = <<>>
    /\ IF transcript_missing(tr)
       THEN /\ ppc' = "raised"
            /\ perror' = "ValueError"
            /\ task' = [k \in TaskNames |-> NotCreated]
       ELSE /\ ppc' = "gather"
            /\ perror' = None
            /\ task' = [k \in TaskNames |-> Running]
    /\ UNCHANGED <<vars, otherVars>>

\* generate_summary: the provider answers, or the call raises.
generate_summary ==
    /\ ppc = "gather"
    /\ task["summary"].kind = "running"
    /\ \E o \in {Returned(v) : v \in SummaryOutputs} \cup {Raised} :
          task' = settle(task, "summary", o)
    /\ UNCHANGED <<ppc, transcript, presult, perror, entities_text, vars, otherVars>>

\* extract_entities: the provider answers, or the call raises.
extract_entities ==
    /\ ppc = "gather"
    /\ task["entities"].kind = "running"
    /\ \/ \E content \in EntityOutputs :
             /\ entities_text' = content
             /\ task' = settle(task, "entities", Returned(entity_lines(content)))
       \/ /\ task' = settle(task, "entities", Raised)
          /\ UNCHANGED entities_text
    /\ UNCHANGED <<ppc, transcript, presult, perror, vars, otherVars>>

\* extract_action_items: the provider answers, or the call raises.
extract_action_items ==
    /\ ppc = "gather"
    /\ task["action_items"].kind = "running"
    /\ \E o \in {Returned(v) : v \in ActionItemOutputs} \cup {Raised} :
          task' = settle(task, "action_items", o)
    /\ UNCHANGED <<ppc, transcript, presult, perror, entities_text, vars, otherVars>>

\* The await on asyncio.gather resumes once every coroutine has finished;
\* failures are degraded and the ProcessingResult is returned.
process_meeting_return ==
    /\ ppc = "gather"
    /\ gather_all_finished(task)
    /\ LET g == asyncio_gather(task)
           r == process_meeting_result(transcript, g.slots)
       IN  IF g.raised \/ r.raised
           THEN /\ ppc' = "raised"
                /\ perror' = "Exception"
                /\ presult' = <<>>
           ELSE /\ ppc' = "returned"
                /\ perror' = None
                /\ presult' = <<r.result>>
    /\ UNCHANGED <<transcript, task, entities_text, vars, otherVars>>

InitProcess ==
    /\ ppc = "idle"
    /\ transcript = ""
    /\ task = [k \in TaskNames |-> NotCreated]
    /\ presult = <<>>
    /\ perror = None
    /\ entities_text = <<>>

NextProcess ==
    \/ \E tr \in Transcripts : process_meeting_call(tr)
    \/ generate_summary
    \/ extract_entities
    \/ extract_action_items
    \/ process_meeting_return

\* The derivation calls that failed in the invocation that has just ended.
FailedTasks == {k \in TaskNames : task[k].kind = "exc"}
ProcessEnded == ppc \in {"returned", "raised"}

DefaultOf(k) == IF k = "summary" THEN SummaryPlaceholder ELSE <<>>

MaxEntityId == 3     \* ids the model lets entities.id reach
MaxMeetingId == 2    \* ids the model lets meetings.id reach
MaxBatch == 2        \* N, the largest id list bulk delete accepts

Workers == {"w1", "w2"}
EntityIds == 1..MaxEntityId
MeetingIds == 1..MaxMeetingId

\* Entity lines the provider returns, and the names and types an
\* administrator enters by hand.
EntityStrings ==
    {<<"Acme", "|", "Company">>, <<"Alice", "|", "Person">>, <<" ", "Acme", " ">>}
EntityStringLists ==
    {<<>>} \cup {<<s>> : s \in EntityStrings}
           \cup {<<s, t>> : s \in {<<"Acme", "|", "Company">>},
                            t \in {<<"Alice", "|", "Person">>}}
\* Entity lines of requests that run one after the other: names that repeat,
\* with the same label, another label, no label or another case, and labels
\* the type mapping knows and does not know.
SequentialStringLists ==
    {<<>>,
     << <<"Acme", "|", "Company">>, <<"Acme", "|", "Person">> >>,
     << <<" ", "Acme", " ">>, <<"acme", "|", "Company">> >>,
     << <<"Widget", "|", "Gadget">> >>,
     << <<"Apollo", " ", "|", " ", "Project">> >>,
     << <<"Slack", "|", "Tool">> >>,
     << <<"Alice", "|", "person">> >>}
\* Entity lines of the meetings whose entities the check-up page lists.
CheckupStringLists ==
    {<< <<"Acme", "|", "Company">>, <<"Alice", "|", "Person">> >>}
ManualNames == {<<"Acme">>, <<"Alice">>}
ManualTypes == {"company"}
\* Names typed into the create form of the meeting page.
NewEntityNames == {<<"Acme">>, <<"Bob">>}

\* The position of the first "|" of s, or 0.
FirstSep(s) ==
    IF \E i \in 1..Len(s) : s[i] = "|"
    THEN CHOOSE i \in 1..Len(s) : s[i] = "|" /\ \A j \in 1..(i - 1) : s[j] # "|"
    ELSE 0

\* EntityManager._parse_entity_string: <<name, type label>>
_parse_entity_string(s) ==
    IF FirstSep(s) # 0
    THEN <<strip(SubSeq(s, 1, FirstSep(s) - 1)),
           strip(SubSeq(s, FirstSep(s) + 1, Len(s)))>>
    ELSE <<strip(s), <<"Other">> >>

\* EntityManager._map_ai_type_to_slug
_map_ai_type_to_slug_default_person(ai_type) ==
    CASE ai_type = <<"Person">> -> "person"
      [] ai_type = <<"Company">> -> "company"
      [] ai_type = <<"Project">> -> "project"
      [] ai_type = <<"Product">> -> "other"
      [] ai_type = <<"Tool">> -> "other"
      [] ai_type = <<"Other">> -> "other"
      [] OTHER -> "person"

_map_ai_type_to_slug(ai_type) ==
    CASE ai_type = <<"Person">> -> "person"
      [] ai_type = <<"Company">> -> "company"
      [] ai_type = <<"Project">> -> "project"
      [] ai_type = <<"Product">> -> "other"
      [] ai_type = <<"Tool">> -> "other"
      [] ai_type = <<"Other">> -> "other"
      [] OTHER -> "other"

\* str.lower(), token by token
lower_token(t) ==
    CASE t = "Acme" -> "acme"
      [] t = "Alice" -> "alice"
      [] t = "Apollo" -> "apollo"
      [] t = "Widget" -> "widget"
      [] t = "Slack" -> "slack"
      [] t = "Person" -> "person"
      [] t = "Company" -> "company"
      [] t = "Project" -> "project"
      [] t = "Tool" -> "tool"
      [] t = "Gadget" -> "gadget"
      [] t = "Other" -> "other"
      [] OTHER -> t

lower(s) == [i \in DOMAIN s |-> lower_token(s[i])]

\* entities.name TEXT NOT NULL UNIQUE: may a row named name be stored beside
\* the rows of ents (other than the row `except`)?
name_is_unique_unenforced(ents, name, except) == TRUE

name_is_unique(ents, name, except) ==
    \A e \in DOMAIN ents : e # except => ents[e].name # name

\* The foreign keys of meeting_entities: both endpoints must be rows.
foreign_keys_hold_unenforced(ms, ents, m, e) == TRUE

foreign_keys_hold(ms, ents, m, e) ==
    m \in ms /\ e \in DOMAIN ents

\* INSERT OR IGNORE INTO meeting_entities: a row that is already there (a
\* conflict on the primary key) is skipped and nothing is raised.
insert_raises_on_conflict(rows, m, e) == <<m, e>> \in rows

insert_or_ignore_raises(rows, m, e) == FALSE

\* FOREIGN KEY (entity_id) REFERENCES entities (id) ON DELETE CASCADE
cascade_entity_none(rows, e) == rows

cascade_entity(rows, e) == {r \in rows : r[2] # e}

\* FOREIGN KEY (meeting_id) REFERENCES meetings (id) ON DELETE CASCADE
cascade_meeting(rows, m) == {r \in rows : r[1] # m}

\* action_items: FOREIGN KEY (meeting_id) REFERENCES meetings (id) ON DELETE
\* CASCADE
cascade_action_items_none(items, m) == items

cascade_action_items(items, m) == {r \in items : r[1] # m}

\* The table entities with the row id added, and with it removed.
with_entity(ents, id, row) ==
    [x \in DOMAIN ents \cup {id} |-> IF x = id THEN row ELSE ents[x]]

without_entity_kept(ents, id) == ents

without_entity(ents, id) ==
    [x \in DOMAIN ents \ {id} |-> ents[x]]

\* EntityManager._find_existing_entity: the ids whose name is exactly name.
_find_existing_entity_never(ents, name) == {}

_find_existing_entity_ignoring_case(ents, name) ==
    {e \in DOMAIN ents : lower(ents[e].name) = lower(name)}

_find_existing_entity(ents, name) ==
    {e \in DOMAIN ents : ents[e].name = name}

\* The default rows of entity_types, the slugs an administrator gives a
\* custom type, and the types an administrator asks to delete.
SystemTypes == {"person", "company", "project", "other"}
CustomTypes == {"client"}
AdminTypes == {"company", "client"}

\* id INTEGER PRIMARY KEY AUTOINCREMENT: the id of a new row is one more
\* than the largest id the table ever held (next is that counter), not one
\* more than the largest id it holds now.
new_entity_id_max_rowid(ents, next) ==
    IF DOMAIN ents = {} THEN 1
    ELSE (CHOOSE e \in DOMAIN ents : \A f \in DOMAIN ents : f <= e) + 1

new_entity_id(ents, next) == next

\* The meeting page before a meeting is opened.
NoEntityResponse == [status |-> "none", id |-> 0]
IdleDetail ==
    [id |-> 0,
     error |-> None,
     createEntityMutation |->
        [status |-> "idle", data |-> [name |-> <<>>, type_slug |-> "person"],
         response |-> NoEntityResponse],
     addEntityMutation |->
        [status |-> "idle", variables |-> [meetingId |-> 0, entityId |-> 0]],
     addRequests |-> {}]

IdleMutation == [status |-> "idle", ids |-> <<>>]

IdleTypeDelete == [pc |-> "idle", type |-> None, result |-> None]

\* FOREIGN KEY (type_slug) REFERENCES entity_types (slug), for a row inserted
\* into entities and for a row deleted from entity_types.
entity_type_exists(types, slug) == slug \in DOMAIN types

type_delete_restricted_unenforced(ents, slug) == FALSE

type_delete_restricted(ents, slug) ==
    \E e \in DOMAIN ents : ents[e].type_slug = slug

\* SELECT COUNT(*) FROM entities e JOIN entity_types et ON e.type_slug = et.slug
count_entities_of_type(ents, types, slug) ==
    Cardinality({e \in DOMAIN ents : ents[e].type_slug = slug /\ slug \in DOMAIN types})

IdleRequest ==
    [pc |-> "idle", strings |-> <<>>, items |-> <<>>, out |-> <<>>, mid |-> 0,
     err |-> None]
IdleBulk ==
    [pc |-> "idle", ids |-> <<>>, i |-> 1, deleted |-> 0, missed |-> {}]
NoResponse ==
    [id |-> 0, status |-> "none"]

Init ==
    /\ InitProcess
    /\ entities = [x \in {} |->
                     [name |-> <<>>, type_slug |-> "other", description |-> <<>>,
                      created_at |-> 0]]
    /\ nextEntityId = 1
    /\ meetings = {}
    /\ nextMeetingId = 1
    /\ meeting_entities = {}
    /\ action_items = {}
    /\ req = [w \in Workers |-> IdleRequest]
    /\ bulk = IdleBulk
    /\ resp = NoResponse
    /\ now = 0
    /\ low_usage = <<>>
    /\ entity_types = [t \in SystemTypes |-> [is_system |-> TRUE]]
    /\ tdel = IdleTypeDelete
    /\ query = "loading"
    /\ selectedEntityIds = {}
    /\ filterType = "all"
    /\ error = None
    /\ bulkDeleteMutation = IdleMutation
    /\ meetingDetail = IdleDetail

\* What a request does after one entity line: the next line, or the end of
\* create_or_get_entities.
AfterLine(rest) == IF rest = <<>> THEN "save" ELSE "find"

\* The route of POST /meetings/process hands the entity lines of the
\* ProcessingResult to EntityManager.create_or_get_entities.
create_or_get_entities(w, strs) ==
    /\ req[w].pc = "idle"
    /\ req' = [req EXCEPT ![w] = [IdleRequest EXCEPT !.pc = AfterLine(strs),
                                                     !.strings = strs]]
    /\ UNCHANGED <<storeVars, bulk, resp, procVars, otherVars>>

\* One pass of the loop up to its first await: parse the line and look the
\* name up.  A hit is appended; a miss goes on to db.create_entity.
create_or_get_entities_find(w) ==
    /\ req[w].pc = "find"
    /\ LET name == _parse_entity_string(Head(req[w].strings))[1]
           existing == _find_existing_entity(entities, name)
           rest == Tail(req[w].strings)
       IN  IF existing # {}
           THEN req' = [req EXCEPT
                          ![w].out = Append(@, CHOOSE e \in existing :
                                                 \A f \in existing : e <= f),
                          ![w].strings = rest,
                          ![w].pc = AfterLine(rest)]
           ELSE req' = [req EXCEPT ![w].pc = "create"]
    /\ UNCHANGED <<storeVars, bulk, resp, procVars, otherVars>>

\* The second await of the pass: db.create_entity inserts the row, or the
\* UNIQUE constraint on entities.name raises and the request fails.
create_or_get_entities_create(w) ==
    /\ req[w].pc = "create"
    /\ LET parsed == _parse_entity_string(Head(req[w].strings))
           rest == Tail(req[w].strings)
       IN  IF /\ name_is_unique(entities, parsed[1], 0)
              /\ entity_type_exists(entity_types, _map_ai_type_to_slug(parsed[2]))
           THEN /\ nextEntityId <= MaxEntityId
                /\ entities' = with_entity(entities,
                                  new_entity_id(entities, nextEntityId),
                                  [name |-> parsed[1],
                                   type_slug |-> _map_ai_type_to_slug(parsed[2]),
                                   description |->
                                      <<"Auto-extracted", " ">> \o lower(parsed[2]),
                                   created_at |-> now])
                /\ nextEntityId' = nextEntityId + 1
                /\ req' = [req EXCEPT ![w].out =
                                         Append(@, new_entity_id(entities, nextEntityId)),
                                      ![w].strings = rest,
                                      ![w].pc = AfterLine(rest)]
           ELSE /\ req' = [req EXCEPT ![w].pc = "failed",
                                      ![w].err = "IntegrityError"]
                /\ UNCHANGED <<entities, nextEntityId>>
    /\ UNCHANGED <<meetings, nextMeetingId, meeting_entities, bulk, resp, action_items, procVars, otherVars>>

\* The route stores the meeting row.
save_meeting(w) ==
    /\ req[w].pc = "save"
    /\ nextMeetingId <= MaxMeetingId
    /\ meetings' = meetings \cup {nextMeetingId}
    /\ nextMeetingId' = nextMeetingId + 1
    /\ req' = [req EXCEPT ![w].mid = nextMeetingId,
                          ![w].pc = IF req[w].out = <<>> THEN "done" ELSE "link"]
    /\ action_items' = action_items \cup
                          {<<nextMeetingId, n>> : n \in 1..Len(req[w].items)}
    /\ UNCHANGED <<entities, nextEntityId, meeting_entities, bulk, resp, procVars, otherVars>>

\* The route links one resolved entity: add_entity_to_meeting, an INSERT OR
\* IGNORE that the foreign keys can still refuse.
link_entity(w) ==
    /\ req[w].pc = "link"
    /\ LET m == req[w].mid
           e == Head(req[w].out)
           rest == Tail(req[w].out)
       IN  IF /\ foreign_keys_hold(meetings, entities, m, e)
              /\ ~insert_or_ignore_raises(meeting_entities, m, e)
           THEN /\ meeting_entities' = meeting_entities \cup {<<m, e>>}
                /\ req' = [req EXCEPT ![w].out = rest,
                                      ![w].pc = IF rest = <<>> THEN "done" ELSE "link"]
           ELSE /\ req' = [req EXCEPT ![w].pc = "failed",
                                      ![w].err = "IntegrityError"]
                /\ UNCHANGED meeting_entities
    /\ UNCHANGED <<entities, nextEntityId, meetings, nextMeetingId, bulk, resp, action_items, procVars, otherVars>>

\* The response is sent; the worker takes the next request.
respond(w) ==
    /\ req[w].pc \in {"done", "failed"}
    /\ req' = [req EXCEPT ![w] = IdleRequest]
    /\ UNCHANGED <<storeVars, bulk, resp, procVars, otherVars>>

\* The route of POST /meetings/process: once processor.process_meeting has
\* returned, its ProcessingResult is stored; the entity lines go to
\* create_or_get_entities and the action items wait for the meeting row.  An
\* exception of process_meeting ends the request instead.
route_process_meeting(w) ==
    /\ ppc = "returned"
    /\ req[w].pc = "idle"
    /\ req' = [req EXCEPT ![w] =
                 [IdleRequest EXCEPT !.pc = AfterLine(presult[1].entities),
                                     !.strings = presult[1].entities,
                                     !.items = presult[1].action_items]]
    /\ ppc' = "idle"
    /\ transcript' = ""
    /\ task' = [k \in TaskNames |-> NotCreated]
    /\ presult' = <<>>
    /\ perror' = None
    /\ entities_text' = <<>>
    /\ UNCHANGED <<storeVars, bulk, resp, otherVars>>

\* POST /entities: db.create_entity; a taken name is refused (400).
create_entity(name, type_slug) ==
    /\ IF /\ name_is_unique(entities, name, 0)
          /\ entity_type_exists(entity_types, type_slug)
       THEN /\ nextEntityId <= MaxEntityId
            /\ entities' = with_entity(entities, new_entity_id(entities, nextEntityId),
                              [name |-> name, type_slug |-> type_slug,
                               description |-> <<>>, created_at |-> now])
            /\ nextEntityId' = nextEntityId + 1
       ELSE UNCHANGED <<entities, nextEntityId>>
    /\ UNCHANGED <<meetings, nextMeetingId, meeting_entities, req, bulk, resp, action_items, procVars, otherVars>>

\* PUT /entities/{id} with a new name: db.update_entity; an unknown id is a
\* 404, a name another row holds is refused.
update_entity(e, name) ==
    /\ IF e \in DOMAIN entities /\ name_is_unique(entities, name, e)
       THEN entities' = [entities EXCEPT ![e].name = name]
       ELSE UNCHANGED entities
    /\ UNCHANGED <<nextEntityId, meetings, nextMeetingId, meeting_entities,
                   req, bulk, resp, action_items, procVars, otherVars>>

\* DELETE /entities/{id}: db.delete_entity removes the row and, by the
\* cascade, its meeting_entities rows, in one transaction; no row, NotFound.
delete_entity(e) ==
    /\ IF e \in DOMAIN entities
       THEN /\ entities' = without_entity(entities, e)
            /\ meeting_entities' = cascade_entity(meeting_entities, e)
            /\ resp' = [id |-> e, status |-> "deleted"]
       ELSE /\ resp' = [id |-> e, status |-> "NotFound"]
            /\ UNCHANGED <<entities, meeting_entities>>
    /\ UNCHANGED <<nextEntityId, meetings, nextMeetingId, req, bulk, action_items, procVars, otherVars>>

\* POST /meetings/{id}/entities/{id}: add_entity_to_meeting.
add_entity_to_meeting(m, e) ==
    /\ IF /\ foreign_keys_hold(meetings, entities, m, e)
          /\ ~insert_or_ignore_raises(meeting_entities, m, e)
       THEN meeting_entities' = meeting_entities \cup {<<m, e>>}
       ELSE UNCHANGED meeting_entities
    /\ UNCHANGED <<entities, nextEntityId, meetings, nextMeetingId,
                   req, bulk, resp, action_items, procVars, otherVars>>

\* DELETE /meetings/{id}/entities/{id}: the row is removed if it is there.
remove_entity_from_meeting(m, e) ==
    /\ meeting_entities' = meeting_entities \ {<<m, e>>}
    /\ UNCHANGED <<entities, nextEntityId, meetings, nextMeetingId,
                   req, bulk, resp, action_items, procVars, otherVars>>

\* DELETE /meetings/{id}: the row and, by the cascades, its meeting_entities
\* and action_items rows go in one transaction.
delete_meeting(m) ==
    /\ IF m \in meetings
       THEN /\ meetings' = meetings \ {m}
            /\ meeting_entities' = cascade_meeting(meeting_entities, m)
            /\ action_items' = cascade_action_items(action_items, m)
       ELSE UNCHANGED <<meetings, meeting_entities, action_items>>
    /\ UNCHANGED <<entities, nextEntityId, nextMeetingId, req, bulk, resp, procVars, otherVars>>

\* EntityBulkDelete: the id list must hold between 1 and MaxBatch ids.
EntityBulkDelete_unvalidated(ids) == TRUE

EntityBulkDelete_valid(ids) == 1 <= Len(ids) /\ Len(ids) <= MaxBatch

\* for entity_id in data.ids: where the handler stands once `done` of the n
\* ids have had their pass, the last of which found its row or did not.
for_entity_id_stop_on_miss(done, n, found) ==
    IF done >= n \/ ~found THEN "done" ELSE "loop"

for_entity_id(done, n, found) ==
    IF done >= n THEN "done" ELSE "loop"

\* POST /entities/bulk-delete: the body is validated, then the loop starts.
bulk_delete_entities_request(ids) ==
    [pc |-> IF EntityBulkDelete_valid(ids)
            THEN for_entity_id(0, Len(ids), TRUE)
            ELSE "InvalidBatch",
     ids |-> ids, i |-> 1, deleted |-> 0, missed |-> {}]

bulk_delete_entities(ids) ==
    /\ bulk.pc # "loop"
    /\ bulk' = bulk_delete_entities_request(ids)
    /\ UNCHANGED <<storeVars, req, resp, procVars, otherVars>>

\* One pass of the loop: db.delete_entity(entity_id), counted when it
\* returns true; after the last id the counts are returned.
bulk_delete_entities_step ==
    /\ bulk.pc = "loop"
    /\ LET e == bulk.ids[bulk.i]
           found == e \in DOMAIN entities
       IN  /\ IF found
              THEN /\ entities' = without_entity(entities, e)
                   /\ meeting_entities' = cascade_entity(meeting_entities, e)
              ELSE UNCHANGED <<entities, meeting_entities>>
           /\ bulk' = [bulk EXCEPT
                         !.deleted = IF found THEN @ + 1 ELSE @,
                         !.missed = IF found THEN @ ELSE @ \cup {e},
                         !.i = @ + 1,
                         !.pc = for_entity_id(bulk.i, Len(bulk.ids), found)]
    /\ UNCHANGED <<nextEntityId, meetings, nextMeetingId, req, resp, action_items, procVars, otherVars>>

\* The title and date columns of the meetings row m.
meeting_row(m) == [id |-> m, title |-> <<"title", m>>, date |-> <<"date", m>>]

\* One entry of the low-usage result (EntityLowUsage): the entity's columns,
\* its meeting_count and the columns of the meetings row m.
EntityLowUsage(ents, e, count, m) ==
    [id |-> e, name |-> ents[e].name, type_slug |-> ents[e].type_slug,
     description |-> ents[e].description, created_at |-> ents[e].created_at,
     meeting_count |-> count,
     meeting_id |-> meeting_row(m).id, meeting_title |-> meeting_row(m).title,
     meeting_date |-> meeting_row(m).date]

\* GET /entities/low-usage: entities JOIN meeting_entities ON e.id =
\* me.entity_id, GROUP BY e.id, HAVING meeting_count = 1; the meeting columns
\* of an entry are those of a joined row of the entry's group.
get_low_usage_entities_at_least_one(ents, rows) ==
    LET joined == {j \in (DOMAIN ents) \X rows : j[1] = j[2][2]}
        meeting_count(e) == Cardinality({j \in joined : j[1] = e})
        meeting_of(e) == (CHOOSE j \in joined : j[1] = e)[2][1]
    IN  {EntityLowUsage(ents, e, meeting_count(e), meeting_of(e)) :
            e \in {x \in {j[1] : j \in joined} : meeting_count(x) >= 1}}

get_low_usage_entities_latest_meeting(ents, rows) ==
    LET joined == {j \in (DOMAIN ents) \X rows : j[1] = j[2][2]}
        meeting_count(e) == Cardinality({j \in joined : j[1] = e})
        latest == CHOOSE m \in {r[1] : r \in rows} : \A r \in rows : r[1] <= m
    IN  {EntityLowUsage(ents, e, meeting_count(e), latest) :
            e \in {x \in {j[1] : j \in joined} : meeting_count(x) = 1}}

get_low_usage_entities(ents, rows) ==
    LET joined == {j \in (DOMAIN ents) \X rows : j[1] = j[2][2]}
        meeting_count(e) == Cardinality({j \in joined : j[1] = e})
        meeting_of(e) == (CHOOSE j \in joined : j[1] = e)[2][1]
    IN  {EntityLowUsage(ents, e, meeting_count(e), meeting_of(e)) :
            e \in {x \in {j[1] : j \in joined} : meeting_count(x) = 1}}

\* POST /entity-types: a slug that exists is refused (400).
create_entity_type(slug) ==
    /\ IF entity_type_exists(entity_types, slug)
       THEN UNCHANGED entity_types
       ELSE entity_types' = [t \in DOMAIN entity_types \cup {slug} |->
                               IF t = slug THEN [is_system |-> FALSE]
                               ELSE entity_types[t]]
    /\ UNCHANGED <<procVars, vars, pageVars, meetingDetail, now, low_usage, tdel>>

\* delete_entity_type up to its second query: no row or a system type
\* returns False.
delete_entity_type(t) ==
    /\ tdel.pc = "idle"
    /\ IF ~entity_type_exists(entity_types, t) \/ entity_types[t].is_system
       THEN tdel' = [pc |-> "idle", type |-> t, result |-> "False"]
       ELSE tdel' = [pc |-> "count", type |-> t, result |-> None]
    /\ UNCHANGED <<procVars, vars, pageVars, meetingDetail, now, low_usage, entity_types>>

\* The count of the entities that use the type: a type in use returns False.
delete_entity_type_count ==
    /\ tdel.pc = "count"
    /\ IF count_entities_of_type(entities, entity_types, tdel.type) > 0
       THEN tdel' = [tdel EXCEPT !.pc = "idle", !.result = "False"]
       ELSE tdel' = [tdel EXCEPT !.pc = "delete"]
    /\ UNCHANGED <<procVars, vars, pageVars, meetingDetail, now, low_usage, entity_types>>

\* DELETE FROM entity_types and the commit: the foreign key of entities
\* refuses the statement while a row of entities holds the slug.
delete_entity_type_delete ==
    /\ tdel.pc = "delete"
    /\ IF type_delete_restricted(entities, tdel.type)
       THEN /\ tdel' = [tdel EXCEPT !.pc = "idle", !.result = "IntegrityError"]
            /\ UNCHANGED entity_types
       ELSE IF entity_type_exists(entity_types, tdel.type)
            THEN /\ entity_types' = [t \in DOMAIN entity_types \ {tdel.type} |->
                                       entity_types[t]]
                 /\ tdel' = [tdel EXCEPT !.pc = "idle", !.result = "True"]
            ELSE /\ tdel' = [tdel EXCEPT !.pc = "idle", !.result = "False"]
                 /\ UNCHANGED entity_types
    /\ UNCHANGED <<procVars, vars, pageVars, meetingDetail, now, low_usage>>

\* A second passes on the database clock.
MaxClock == 2        \* seconds the model lets the clock advance

tick ==
    /\ now < MaxClock
    /\ now' = now + 1
    /\ UNCHANGED <<procVars, vars, pageVars, meetingDetail, low_usage, typeVars>>

\* ORDER BY created_at: the orders in which the rows of S can be returned;
\* rows created in the same second come in any order.
Orderings(S) ==
    {q \in [1..Cardinality(S) -> S] : \A i, j \in DOMAIN q : i # j => q[i] # q[j]}

order_by_created_at_asc(S) ==
    {q \in Orderings(S) :
        \A i, j \in DOMAIN q : i < j => q[i].created_at <= q[j].created_at}

order_by_created_at_desc(S) ==
    {q \in Orderings(S) :
        \A i, j \in DOMAIN q : i < j => q[i].created_at >= q[j].created_at}

\* GET /entities/low-usage: the rows of db.get_low_usage_entities, newest
\* entity first.
low_usage_entities ==
    /\ \E q \in order_by_created_at_desc(
                    get_low_usage_entities(entities, meeting_entities)) :
          low_usage' = q
    /\ query' = "success"
    /\ UNCHANGED <<procVars, vars, meetingDetail, now, typeVars, selectedEntityIds, filterType,
                   error, bulkDeleteMutation>>

\* {"deleted": deleted_count, "total": len(data.ids)}
bulk_report_successes_only == [deleted |-> bulk.deleted, total |-> bulk.deleted]

bulk_report == [deleted |-> bulk.deleted, total |-> Len(bulk.ids)]

\* The ids of S in ascending order.
RECURSIVE Ascending(_)
Ascending(S) ==
    IF S = {} THEN <<>>
    ELSE LET hi == CHOOSE x \in S : \A y \in S : y <= x
         IN  Append(Ascending(S \ {hi}), hi)

\* The id lists a bulk-delete request may carry: ids that exist and ids that
\* do not, from no id at all to one id more than MaxBatch.
BulkIdLists ==
    {Ascending(S) : S \in {T \in SUBSET EntityIds : Cardinality(T) <= MaxBatch + 1}}

\* A processing request served by worker w.
ProcessingRequest(w) ==
    \/ \E strs \in EntityStringLists : create_or_get_entities(w, strs)
    \/ create_or_get_entities_find(w)
    \/ create_or_get_entities_create(w)
    \/ save_meeting(w)
    \/ link_entity(w)
    \/ respond(w)

\* Two processing requests side by side.
NextWorkers ==
    \E w \in Workers : ProcessingRequest(w)

\* Two processing requests and an administrator who creates and renames
\* entities by hand.
NextResolve ==
    \/ \E w \in Workers : ProcessingRequest(w)
    \/ \E name \in ManualNames, t \in ManualTypes : create_entity(name, t)
    \/ \E e \in EntityIds, name \in ManualNames : update_entity(e, name)

\* One processing request and an administrator who links, unlinks and
\* deletes.
Next ==
    \/ ProcessingRequest("w1")
    \/ \E e \in EntityIds : delete_entity(e)
    \/ \E m \in MeetingIds, e \in EntityIds : add_entity_to_meeting(m, e)
    \/ \E m \in MeetingIds, e \in EntityIds : remove_entity_from_meeting(m, e)
    \/ \E m \in MeetingIds : delete_meeting(m)
    \/ \E ids \in BulkIdLists : bulk_delete_entities(ids)
    \/ bulk_delete_entities_step

Spec == Init /\ [][Next]_allVars

SpecResolve == Init /\ [][NextResolve]_allVars

SpecWorkers == Init /\ [][NextWorkers]_allVars

SpecProcess == Init /\ [][NextProcess]_allVars

\* One processing request and an administrator who links and unlinks.
NextAssociate ==
    \/ ProcessingRequest("w1")
    \/ \E m \in MeetingIds, e \in EntityIds : add_entity_to_meeting(m, e)
    \/ \E m \in MeetingIds, e \in EntityIds : remove_entity_from_meeting(m, e)

SpecAssociate == Init /\ [][NextAssociate]_allVars

\* Processing requests that run one after the other.
NextSequential ==
    \/ \E strs \in SequentialStringLists : create_or_get_entities("w1", strs)
    \/ create_or_get_entities_find("w1")
    \/ create_or_get_entities_create("w1")
    \/ save_meeting("w1")
    \/ link_entity("w1")
    \/ respond("w1")

SpecSequential == Init /\ [][NextSequential]_allVars

\* The whole of POST /meetings/process, from the transcript to the stored
\* rows, beside an administrator who deletes meetings.
NextPipeline ==
    \/ NextProcess
    \/ route_process_meeting("w1")
    \/ create_or_get_entities_find("w1")
    \/ create_or_get_entities_create("w1")
    \/ save_meeting("w1")
    \/ link_entity("w1")
    \/ respond("w1")
    \/ \E m \in MeetingIds : delete_meeting(m)

SpecPipeline == Init /\ [][NextPipeline]_allVars

\* Entities created over time by processing requests, linked by hand, and
\* listed by the low-usage query.
NextLowUsage ==
    \/ ProcessingRequest("w1")
    \/ \E m \in MeetingIds, e \in EntityIds : add_entity_to_meeting(m, e)
    \/ tick
    \/ low_usage_entities

SpecLowUsage == Init /\ [][NextLowUsage]_allVars

\* Entities that are deleted one by one or in bulk, and afterwards resolved,
\* created by hand and linked again.
NextTerminal ==
    \/ \E strs \in CheckupStringLists : create_or_get_entities("w1", strs)
    \/ create_or_get_entities_find("w1")
    \/ create_or_get_entities_create("w1")
    \/ save_meeting("w1")
    \/ link_entity("w1")
    \/ respond("w1")
    \/ \E name \in ManualNames, t \in ManualTypes : create_entity(name, t)
    \/ \E e \in EntityIds : delete_entity(e)
    \/ \E ids \in BulkIdLists : bulk_delete_entities(ids)
    \/ bulk_delete_entities_step
    \/ \E m \in MeetingIds, e \in EntityIds : add_entity_to_meeting(m, e)

SpecTerminal == Init /\ [][NextTerminal]_allVars

(***************************************************************************)
(* Part 3.  The check-up page                                              *)
(***************************************************************************)

\* The rows the page shows under the type filter ft; entitiesList is the
\* data of the low-usage query.
filteredEntities(entitiesList, ft) ==
    IF ft = "all" THEN entitiesList
    ELSE SelectSeq(entitiesList, LAMBDA entity : entity.type_slug = ft)

availableTypes(entitiesList) ==
    {entitiesList[i].type_slug : i \in DOMAIN entitiesList}

\* list.map(e => e.id)
map_id(list) == {list[i].id : i \in DOMAIN list}

\* {selectedEntityIds.size > 0 && (<Button ... onClick={handleBulkDelete}>)}
delete_button_offered_always(selected) == TRUE

delete_button_offered(selected) == Cardinality(selected) > 0

\* selectedEntityIds.size === filteredEntities.length && filteredEntities.length > 0
select_all_checked(selected, filtered) ==
    Cardinality(selected) = Len(filtered) /\ Len(filtered) > 0

\* What the server answered to a failed bulk delete: nothing (the request
\* did not get through), or the 422 of the request validation.
NoResponseData == [kind |-> "none"]
ValidationError ==
    [kind |-> "detail_array", detail |-> <<"List should have at most 2 items">>]

\* onError: the message built from error.response?.data
errorMessage(data) ==
    CASE data.kind = "string" -> data.body
      [] data.kind = "detail_string" -> data.detail
      [] data.kind = "detail_array" ->
            IF Len(data.detail) = 0 THEN "" ELSE data.detail[1]
      [] data.kind = "message" -> data.message
      [] OTHER -> "Failed to delete entities"

\* The checkbox of a card.
toggleEntitySelection(entityId) ==
    /\ query # "loading"
    /\ entityId \in map_id(filteredEntities(low_usage, filterType))
    /\ selectedEntityIds' = IF entityId \in selectedEntityIds
                            THEN selectedEntityIds \ {entityId}
                            ELSE selectedEntityIds \cup {entityId}
    /\ UNCHANGED <<procVars, vars, meetingDetail, now, low_usage, typeVars, query, filterType,
                   error, bulkDeleteMutation>>

\* The "Select all" checkbox, shown while the filtered list is not empty.
toggleSelectAll ==
    /\ query # "loading"
    /\ Len(filteredEntities(low_usage, filterType)) > 0
    /\ selectedEntityIds' =
          IF select_all_checked(selectedEntityIds,
                                filteredEntities(low_usage, filterType))
          THEN {}
          ELSE map_id(filteredEntities(low_usage, filterType))
    /\ UNCHANGED <<procVars, vars, meetingDetail, now, low_usage, typeVars, query, filterType,
                   error, bulkDeleteMutation>>

\* The type select and the clear-filter buttons.
setFilterType(t) ==
    /\ query # "loading"
    /\ t \in {"all"} \cup availableTypes(low_usage)
    /\ filterType' = t
    /\ UNCHANGED <<procVars, vars, meetingDetail, now, low_usage, typeVars, query,
                   selectedEntityIds, error, bulkDeleteMutation>>

\* The "Delete N" button: after the confirmation the selected ids are sent
\* to POST /entities/bulk-delete.
handleBulkDelete(confirmed) ==
    /\ query # "loading"
    /\ delete_button_offered(selectedEntityIds)
    /\ bulkDeleteMutation.status # "pending"
    /\ bulk.pc # "loop"
    /\ LET selectedCount == Cardinality(selectedEntityIds)
           numericIds == Ascending(selectedEntityIds)
       IN  IF selectedCount = 0 \/ ~confirmed
           THEN UNCHANGED <<error, bulkDeleteMutation, bulk>>
           ELSE IF Len(numericIds) = 0
                THEN /\ error' = "No valid entities selected for deletion"
                     /\ UNCHANGED <<bulkDeleteMutation, bulk>>
                ELSE /\ bulkDeleteMutation' = [status |-> "pending", ids |-> numericIds]
                     /\ bulk' = bulk_delete_entities_request(numericIds)
                     /\ UNCHANGED error
    /\ UNCHANGED <<procVars, storeVars, req, resp, meetingDetail, now, low_usage, typeVars, query,
                   selectedEntityIds, filterType>>

\* bulkDeleteMutation.onSuccess
bulkDeleteMutation_onSuccess_keeping_selection ==
    /\ bulkDeleteMutation.status = "pending"
    /\ bulk.pc = "done"
    /\ query' = "stale"
    /\ error' = None
    /\ bulkDeleteMutation' = IdleMutation
    /\ UNCHANGED <<procVars, vars, meetingDetail, now, low_usage, typeVars, filterType,
                   selectedEntityIds>>

bulkDeleteMutation_onSuccess ==
    /\ bulkDeleteMutation.status = "pending"
    /\ bulk.pc = "done"
    /\ query' = "stale"
    /\ selectedEntityIds' = {}
    /\ error' = None
    /\ bulkDeleteMutation' = IdleMutation
    /\ UNCHANGED <<procVars, vars, meetingDetail, now, low_usage, typeVars, filterType>>

\* bulkDeleteMutation.onError
bulkDeleteMutation_onError(data) ==
    /\ bulkDeleteMutation.status = "pending"
    /\ data = ValidationError => bulk.pc = "InvalidBatch"
    /\ error' = errorMessage(data)
    /\ bulkDeleteMutation' = IdleMutation
    /\ UNCHANGED <<procVars, vars, meetingDetail, now, low_usage, typeVars, query,
                   selectedEntityIds, filterType>>

\* The check-up page beside processing requests and the bulk-delete handler.
NextCheckup ==
    \/ \E strs \in CheckupStringLists : create_or_get_entities("w1", strs)
    \/ create_or_get_entities_find("w1")
    \/ create_or_get_entities_create("w1")
    \/ save_meeting("w1")
    \/ link_entity("w1")
    \/ respond("w1")
    \/ low_usage_entities
    \/ bulk_delete_entities_step
    \/ \E entityId \in EntityIds : toggleEntitySelection(entityId)
    \/ toggleSelectAll
    \/ \E t \in {"all"} \cup SystemTypes : setFilterType(t)
    \/ \E confirmed \in BOOLEAN : handleBulkDelete(confirmed)
    \/ bulkDeleteMutation_onSuccess
    \/ \E data \in {NoResponseData, ValidationError} : bulkDeleteMutation_onError(data)

SpecCheckup == Init /\ [][NextCheckup]_allVars

(***************************************************************************)
(* Part 4.  The meeting page: create an entity and add it to the meeting   *)
(***************************************************************************)

\* error.response?.data?.detail || fallback
detail_or(response, fallback) ==
    IF response.status = "detail" THEN "detail" ELSE fallback

\* The page is opened for the meeting m.
open_meeting(m) ==
    /\ m \in meetings
    /\ meetingDetail.createEntityMutation.status # "pending"
    /\ meetingDetail.addRequests = {}
    /\ meetingDetail' = [IdleDetail EXCEPT !.id = m]
    /\ UNCHANGED <<procVars, vars, now, low_usage, typeVars, pageVars>>

\* The "Create & Add" button: createEntityMutation.mutate(newEntityData)
handleCreateEntity(name, type_slug) ==
    /\ meetingDetail.id # 0
    /\ meetingDetail.createEntityMutation.status # "pending"
    /\ IF strip(name) = <<>>
       THEN meetingDetail' = [meetingDetail EXCEPT !.error = "Entity name is required"]
       ELSE meetingDetail' =
              [meetingDetail EXCEPT
                 !.createEntityMutation =
                    [status |-> "pending",
                     data |-> [name |-> name, type_slug |-> type_slug],
                     response |-> NoEntityResponse]]
    /\ UNCHANGED <<procVars, vars, now, low_usage, typeVars, pageVars>>

\* entityApi.create: POST /entities serves the request and the response
\* arrives, or the request fails on its way.
entityApi_create(arrives) ==
    /\ meetingDetail.createEntityMutation.status = "pending"
    /\ meetingDetail.createEntityMutation.response.status = "none"
    /\ LET data == meetingDetail.createEntityMutation.data
       IN  IF ~arrives
           THEN /\ meetingDetail' =
                     [meetingDetail EXCEPT
                        !.createEntityMutation.response =
                           [status |-> "failed", id |-> 0]]
                /\ UNCHANGED <<entities, nextEntityId>>
           ELSE IF /\ name_is_unique(entities, data.name, 0)
                   /\ entity_type_exists(entity_types, data.type_slug)
                THEN /\ nextEntityId <= MaxEntityId
                     /\ entities' = with_entity(entities,
                                       new_entity_id(entities, nextEntityId),
                                       [name |-> data.name,
                                        type_slug |-> data.type_slug,
                                        description |-> <<>>, created_at |-> now])
                     /\ nextEntityId' = nextEntityId + 1
                     /\ meetingDetail' =
                          [meetingDetail EXCEPT
                             !.createEntityMutation.response =
                                [status |-> "ok",
                                 id |-> new_entity_id(entities, nextEntityId)]]
                ELSE /\ meetingDetail' =
                          [meetingDetail EXCEPT
                             !.createEntityMutation.response =
                                [status |-> "detail", id |-> 0]]
                     /\ UNCHANGED <<entities, nextEntityId>>
    /\ UNCHANGED <<procVars, meetings, nextMeetingId, meeting_entities, action_items,
                   req, bulk, resp, now, low_usage, typeVars, pageVars>>

\* createEntityMutation.onSuccess: the new entity is added to the meeting.
createEntityMutation_onSuccess ==
    /\ meetingDetail.createEntityMutation.status = "pending"
    /\ meetingDetail.createEntityMutation.response.status = "ok"
    /\ LET variables == [meetingId |-> meetingDetail.id,
                         entityId |-> meetingDetail.createEntityMutation.response.id]
       IN  meetingDetail' =
             [meetingDetail EXCEPT
                !.createEntityMutation.status = "success",
                !.addEntityMutation = [status |-> "pending", variables |-> variables],
                !.addRequests = @ \cup {variables}]
    /\ UNCHANGED <<procVars, vars, now, low_usage, typeVars, pageVars>>

\* createEntityMutation.onError
createEntityMutation_onError_adding ==
    /\ meetingDetail.createEntityMutation.status = "pending"
    /\ meetingDetail.createEntityMutation.response.status \in {"failed", "detail"}
    /\ LET variables == [meetingId |-> meetingDetail.id,
                         entityId |-> meetingDetail.createEntityMutation.response.id]
       IN  meetingDetail' =
             [meetingDetail EXCEPT
                !.createEntityMutation.status = "error",
                !.error = detail_or(meetingDetail.createEntityMutation.response,
                                    "Failed to create entity"),
                !.addEntityMutation = [status |-> "pending", variables |-> variables],
                !.addRequests = @ \cup {variables}]
    /\ UNCHANGED <<procVars, vars, now, low_usage, typeVars, pageVars>>

createEntityMutation_onError ==
    /\ meetingDetail.createEntityMutation.status = "pending"
    /\ meetingDetail.createEntityMutation.response.status \in {"failed", "detail"}
    /\ meetingDetail' =
          [meetingDetail EXCEPT
             !.createEntityMutation.status = "error",
             !.error = detail_or(meetingDetail.createEntityMutation.response,
                                 "Failed to create entity")]
    /\ UNCHANGED <<procVars, vars, now, low_usage, typeVars, pageVars>>

\* The "Add" button of the existing-entity form.
handleAddEntity(selectedEntityId) ==
    /\ meetingDetail.id # 0
    /\ selectedEntityId \in DOMAIN entities
    /\ meetingDetail.addEntityMutation.status # "pending"
    /\ <<meetingDetail.id, selectedEntityId>> \notin meeting_entities
    /\ LET variables == [meetingId |-> meetingDetail.id, entityId |-> selectedEntityId]
       IN  meetingDetail' =
             [meetingDetail EXCEPT
                !.addEntityMutation = [status |-> "pending", variables |-> variables],
                !.addRequests = @ \cup {variables}]
    /\ UNCHANGED <<procVars, vars, now, low_usage, typeVars, pageVars>>

\* meetingApi.addEntity: POST /meetings/{id}/entities/{id} serves a request
\* and the callbacks of addEntityMutation run if it is the mutation's latest.
meetingApi_addEntity(r) ==
    /\ r \in meetingDetail.addRequests
    /\ LET ok == /\ foreign_keys_hold(meetings, entities, r.meetingId, r.entityId)
                 /\ ~insert_or_ignore_raises(meeting_entities, r.meetingId, r.entityId)
           latest == /\ meetingDetail.addEntityMutation.status = "pending"
                     /\ meetingDetail.addEntityMutation.variables = r
       IN  /\ IF ok
              THEN meeting_entities' = meeting_entities \cup {<<r.meetingId, r.entityId>>}
              ELSE UNCHANGED meeting_entities
           /\ meetingDetail' =
                 [meetingDetail EXCEPT
                    !.addRequests = @ \ {r},
                    !.addEntityMutation.status =
                       IF latest THEN (IF ok THEN "success" ELSE "error") ELSE @,
                    !.error =
                       IF latest
                       THEN (IF ok THEN None ELSE "Failed to add entity to meeting")
                       ELSE @]
    /\ UNCHANGED <<procVars, entities, nextEntityId, meetings, nextMeetingId,
                   action_items, req, bulk, resp, now, low_usage, typeVars, pageVars>>

\* The meeting page beside processing requests that found no entity and the
\* deletion of entities.
NextMeetingDetail ==
    \/ create_or_get_entities("w1", <<>>)
    \/ save_meeting("w1")
    \/ respond("w1")
    \/ \E e \in EntityIds : delete_entity(e)
    \/ \E m \in MeetingIds : open_meeting(m)
    \/ \E name \in NewEntityNames, t \in ManualTypes : handleCreateEntity(name, t)
    \/ \E arrives \in BOOLEAN : entityApi_create(arrives)
    \/ createEntityMutation_onSuccess
    \/ createEntityMutation_onError
    \/ \E e \in EntityIds : handleAddEntity(e)
    \/ \E m \in MeetingIds, e \in 0..MaxEntityId :
          meetingApi_addEntity([meetingId |-> m, entityId |-> e])

SpecMeetingDetail == Init /\ [][NextMeetingDetail]_allVars

\* An administrator who creates and deletes entity types beside the creation
\* and deletion of entities.
NextTypes ==
    \/ \E t \in CustomTypes : create_entity_type(t)
    \/ \E t \in AdminTypes : delete_entity_type(t)
    \/ delete_entity_type_count
    \/ delete_entity_type_delete
    \/ \E name \in ManualNames, t \in AdminTypes : create_entity(name, t)
    \/ \E e \in EntityIds : delete_entity(e)

SpecTypes == Init /\ [][NextTypes]_allVars

\* The junction rows whose entity is e.
RowsOf(e) == {r \in meeting_entities : r[2] = e}

\* The ids entities.id has handed out so far; those no longer in the table
\* belong to deleted rows, and AUTOINCREMENT never hands them out again.
AllocatedIds == 1..(nextEntityId - 1)
DeletedIds == AllocatedIds \ DOMAIN entities

\* The name a request is resolving at the head of its entity lines.
ResolvingName(w) == _parse_entity_string(Head(req[w].strings))[1]

\* C3: in every reachable state no two rows of entities have the same name,
\* whatever the interleaving of the resolve calls of concurrent processing
\* requests with manual creations and renames.
C3_UniqueNames ==
    \A e, f \in DOMAIN entities : e # f => entities[e].name # entities[f].name

C3_Witness ==
    /\ Cardinality(DOMAIN entities) = 2
    /\ \E w \in Workers :
         /\ req[w].pc = "failed"
         /\ req[w].strings # <<>>
         /\ _find_existing_entity(entities, ResolvingName(w)) # {}

\* C4 as stated: when two processing requests resolve the same new name at the
\* same time, each resolve call returns the one record of that name; the call
\* that comes second does not fail on the row the first one inserted.
C4_ConcurrentResolveSameIdentity ==
    \A w \in Workers :
        ~(/\ req[w].pc = "failed"
          /\ req[w].strings # <<>>
          /\ _find_existing_entity(entities, ResolvingName(w)) # {})

\* C5: in every reachable state both ends of every meeting_entities row are
\* existing rows of meetings and of entities, whatever the interleaving of
\* the links made by processing or by hand with delete_entity, bulk delete
\* and delete_meeting.
C5_NoDanglingAssociation ==
    \A r \in meeting_entities : r[1] \in meetings /\ r[2] \in DOMAIN entities

C5_Witness ==
    /\ req["w1"].pc = "failed"
    /\ req["w1"].strings = <<>>
    /\ req["w1"].mid \in meetings
    /\ Head(req["w1"].out) \in DeletedIds

C7_CascadeOnDelete ==
    [][\A e \in EntityIds :
          delete_entity(e) =>
             /\ e \in DOMAIN entities =>
                  /\ resp'.status = "deleted"
                  /\ e \notin DOMAIN entities'
                  /\ {r \in meeting_entities' : r[2] = e} = {}
                  /\ meetings' = meetings
             /\ e \in DeletedIds => resp' = [id |-> e, status |-> "NotFound"]
      ]_allVars

C7_Witness ==
    /\ resp.status = "NotFound"
    /\ resp.id \in DeletedIds
    /\ meetings # {}

ReportedFailedIds ==
    IF "failed" \in DOMAIN bulk_report THEN bulk_report.failed ELSE {}

RowCreated ==
    \/ nextEntityId' # nextEntityId
    \/ nextMeetingId' # nextMeetingId
    \/ ~(meeting_entities' \subseteq meeting_entities)
    \/ ~(action_items' \subseteq action_items)

RowsNamed(n) == {e \in DOMAIN entities : entities[e].name = n}

\* The resolve step of w returned a record: one id more in its result list.
Resolved(w) == Len(req'[w].out) = Len(req[w].out) + 1
ResolvedId(w) == req'[w].out[Len(req'[w].out)]

\* C15: with requests served one after the other, resolving a name that is
\* already stored returns the id of the stored row and creates nothing; every
\* resolve returns the row stored under the name, and a name that occurs
\* twice in one list of entity lines resolves both times to the same id.
C15_ResolutionIdempotent ==
    /\ [][\A w \in Workers :
            (create_or_get_entities_find(w) /\ RowsNamed(ResolvingName(w)) # {})
               => /\ Resolved(w)
                  /\ ResolvedId(w) \in RowsNamed(ResolvingName(w))
                  /\ nextEntityId' = nextEntityId
                  /\ DOMAIN entities' = DOMAIN entities
        ]_allVars
    /\ [][\A w \in Workers :
            create_or_get_entities_create(w)
               => /\ Resolved(w)
                  /\ {e \in DOMAIN entities' : entities'[e].name = ResolvingName(w)}
                        = {ResolvedId(w)}
        ]_allVars
    /\ [](\A w \in Workers : \A i, j \in 1..Len(req[w].out) :
            (/\ req[w].pc \in {"find", "create", "save"}
             /\ entities[req[w].out[i]].name = entities[req[w].out[j]].name)
                => req[w].out[i] = req[w].out[j])

C15_Witness ==
    /\ req["w1"].pc = "save"
    /\ Len(req["w1"].out) = 2
    /\ req["w1"].out[1] = req["w1"].out[2]
    /\ RowsNamed(<<"Acme">>) = {req["w1"].out[1]}

\* The type tag the claim gives a provider label.
ExpectedTypeTag(label) ==
    IF label = <<"Person">> THEN "person"
    ELSE IF label = <<"Company">> THEN "company"
    ELSE IF label = <<"Project">> THEN "project"
    ELSE "other"

C17_MatchLeavesRecordUnchanged ==
    [][\A w \in Workers :
          (create_or_get_entities_find(w) /\ Resolved(w))
             => /\ ResolvedId(w) \in DOMAIN entities
                /\ entities[ResolvedId(w)].name = ResolvingName(w)
                /\ entities' = entities
                /\ nextEntityId' = nextEntityId
      ]_allVars

C17_Witness ==
    /\ req["w1"].pc = "save"
    /\ req["w1"].out = <<1, 2>>
    /\ entities[1].name = <<"Acme">>
    /\ entities[1].type_slug = "company"
    /\ entities[1].description = <<"Auto-extracted", " ", "company">>
    /\ entities[2].name = <<"acme">>

\* The meeting ids handed out so far that are no longer rows of meetings.
DeletedMeetingIds == (1..(nextMeetingId - 1)) \ meetings

\* C18: delete_meeting(m) removes the row of m together with exactly the
\* action_items and the meeting_entities rows of m, or, when m is no row,
\* nothing; it leaves every row of entities, also an entity whose only
\* association was with m, and the rows of every other meeting as they were.
\* In no state does a deleted meeting still own an action item or an
\* association.
C18_DeleteMeetingCascade ==
    /\ [](\A r \in action_items \cup meeting_entities : r[1] \notin DeletedMeetingIds)
    /\ [][\A m \in MeetingIds :
            delete_meeting(m) =>
               /\ entities' = entities
               /\ nextEntityId' = nextEntityId
               /\ \/ /\ m \in meetings
                     /\ meetings' = meetings \ {m}
                     /\ action_items' = {r \in action_items : r[1] # m}
                     /\ meeting_entities' = {r \in meeting_entities : r[1] # m}
                  \/ /\ m \notin meetings
                     /\ UNCHANGED storeVars
        ]_allVars

C18_Witness ==
    /\ req["w1"].pc = "idle"
    /\ DeletedMeetingIds # {}
    /\ \E e \in DOMAIN entities : RowsOf(e) = {}
    /\ \E m \in meetings :
          /\ \E r \in action_items : r[1] = m
          /\ \E r \in meeting_entities : r[1] = m

\* C19: add_entity_to_meeting for a pair that is already a row of
\* meeting_entities succeeds and changes nothing, from the processing route
\* as from a manual add; the rows are keyed by (meeting_id, entity_id), so a
\* pair is never stored twice.
C19_AssociateIdempotent ==
    /\ [][\A w \in Workers :
            (link_entity(w) /\ <<req[w].mid, Head(req[w].out)>> \in meeting_entities)
               => /\ req'[w].pc \in {"link", "done"}
                  /\ req'[w].err = None
                  /\ meeting_entities' = meeting_entities
        ]_allVars
    /\ [][\A m \in MeetingIds, e \in EntityIds :
            (add_entity_to_meeting(m, e) /\ <<m, e>> \in meeting_entities)
               => meeting_entities' = meeting_entities
        ]_allVars
    /\ [](\A m \in MeetingIds, e \in EntityIds :
            Cardinality({r \in meeting_entities : r[1] = m /\ r[2] = e}) <= 1)

C19_Witness ==
    /\ req["w1"].pc = "link"
    /\ <<req["w1"].mid, Head(req["w1"].out)>> \in meeting_entities

Trimmed(s, lo, hi) ==
    LET inked == {i \in lo..hi : s[i] \notin Whitespace}
    IN  IF inked = {} THEN <<>>
        ELSE SubSeq(s, CHOOSE i \in inked : \A j \in inked : i <= j,
                       CHOOSE i \in inked : \A j \in inked : j <= i)

\* Where the name of an entity line ends: before its first separator, or at
\* the end of the line.
NameEnd(s) ==
    LET seps == {i \in 1..Len(s) : s[i] = "|"}
    IN  IF seps = {} THEN Len(s) ELSE (CHOOSE i \in seps : \A j \in seps : i <= j) - 1

ExpectedName(s) == Trimmed(s, 1, NameEnd(s))
ExpectedLabel(s) ==
    IF NameEnd(s) = Len(s) THEN <<"Other">> ELSE Trimmed(s, NameEnd(s) + 2, Len(s))

\* The positions where a line of the content c that holds more than blanks
\* ends.
NonBlankLineEnds(c) ==
    {i \in 1..(Len(c) + 1) :
        /\ i = Len(c) + 1 \/ c[i] = "\n"
        /\ \E j \in 1..(i - 1) : /\ c[j] \notin Whitespace
                                 /\ \A k \in j..(i - 1) : c[k] # "\n"}

IsEntityLine(l) ==
    /\ l # <<>>
    /\ \A i \in 1..Len(l) : l[i] # "\n"
    /\ Head(l) # " " /\ l[Len(l)] # " "

Ink(c) == SelectSeq(c, LAMBDA t : t \notin Whitespace)

RECURSIVE Concat(_)
Concat(ls) == IF ls = <<>> THEN <<>> ELSE Head(ls) \o Concat(Tail(ls))

\* C21: the lines extract_entities returns are the lines of the message
\* content that hold more than blanks, each trimmed, so an empty or
\* whitespace-only line never reaches the resolver; and the entity created
\* from a line has as its name the trimmed text before the first separator
\* and as its type label the trimmed text after it, or the whole trimmed
\* line and the label "Other" when the line has no separator.
C21_EntityLineParsing ==
    /\ [](/\ task["entities"].kind = "ok" =>
              LET lines == task["entities"].val
              IN  /\ \A i \in 1..Len(lines) : IsEntityLine(lines[i])
                  /\ Len(lines) = Cardinality(NonBlankLineEnds(entities_text))
                  /\ Ink(Concat(lines)) = Ink(entities_text)
          /\ \A w \in Workers : \A i \in 1..Len(req[w].strings) :
                 IsEntityLine(req[w].strings[i]))
    /\ [][\A w \in Workers : \A e \in DOMAIN entities' \ DOMAIN entities :
             req[w].pc = "create" =>
                LET line == Head(req[w].strings)
                IN  /\ entities'[e].name = ExpectedName(line)
                    /\ entities'[e].description =
                          <<"Auto-extracted", " ">> \o lower(ExpectedLabel(line))
                    /\ (\A i \in 1..Len(line) : line[i] # "|") =>
                          /\ entities'[e].name = line
                          /\ entities'[e].type_slug = "other"]_allVars

\* Blank lines were dropped from a message, a line without a separator and a
\* line with two separators have each produced an entity.
C21_Witness ==
    /\ task["entities"].kind = "ok"
    /\ Len(entities_text) = 12
    /\ Len(task["entities"].val) = 2
    /\ \E e \in DOMAIN entities :
          /\ entities[e].name = <<"Alice">>
          /\ entities[e].description = <<"Auto-extracted", " ", "other">>
    /\ \E e \in DOMAIN entities :
          /\ entities[e].name = <<"Apollo">>
          /\ entities[e].description =
                <<"Auto-extracted", " ", "project", "|", "tool">>

\* C22: the rows the low-usage query returns are ordered by the creation
\* time of their entity, the most recently created first.
C22_LowUsageNewestFirst ==
    \A i, j \in 1..Len(low_usage) :
        i < j => low_usage[i].created_at >= low_usage[j].created_at

\* A reply of two rows whose entities were created in different seconds, the
\* earlier one with the smaller id.
C22_Witness ==
    /\ Len(low_usage) = 2
    /\ low_usage[1].created_at > low_usage[2].created_at
    /\ low_usage[1].id > low_usage[2].id

\* C23: an entity type that is a system type, or that a row of entities
\* uses, is never deleted, and in every reachable state the type_slug of
\* every entity is the slug of a row of entity_types, also when
\* delete_entity_type runs beside the creation of an entity of the type.
C23_EntityTypeIntegrity ==
    /\ [](\A e \in DOMAIN entities : entities[e].type_slug \in DOMAIN entity_types)
    /\ [][\A t \in DOMAIN entity_types \ DOMAIN entity_types' :
             /\ ~entity_types[t].is_system
             /\ \A e \in DOMAIN entities : entities[e].type_slug # t]_allVars

\* An entity of the custom type was created between the count and the DELETE
\* of delete_entity_type, and the DELETE was refused.
C23_Witness ==
    /\ tdel.result = "IntegrityError"
    /\ tdel.type = "client"
    /\ \E e \in DOMAIN entities : entities[e].type_slug = "client"

\* C24: on the check-up page the "Delete N" button is offered only while the
\* selection holds at least one id, and no bulk-delete request leaves the
\* page with an empty id list: every request carries the ids of a selection
\* that was not empty when the button was pressed.
C24_NoEmptyBulkDelete ==
    /\ [](delete_button_offered(selectedEntityIds) => selectedEntityIds # {})
    /\ [](bulkDeleteMutation.status = "pending" => bulkDeleteMutation.ids # <<>>)
    /\ [][(bulkDeleteMutation.status # "pending"
            /\ bulkDeleteMutation'.status = "pending")
           => /\ selectedEntityIds # {}
              /\ bulk'.ids # <<>>
              /\ bulk'.ids = bulkDeleteMutation'.ids]_allVars

\* A request with one id was sent and served; the selection is empty again
\* under a type filter that shows rows, and the button is gone.
C24_Witness ==
    /\ query # "loading"
    /\ selectedEntityIds = {}
    /\ filterType # "all"
    /\ Len(filteredEntities(low_usage, filterType)) > 0
    /\ bulk.pc = "done" /\ Len(bulk.ids) = 1
    /\ bulkDeleteMutation.status = "idle"

\* The ids of the rows the page shows.
DisplayedIds == map_id(filteredEntities(low_usage, filterType))

\* C25: a click on "Select all" while some displayed row is not selected
\* makes the selection exactly the ids of the displayed rows, so that the
\* button counts the displayed rows; a click while every displayed row is
\* selected empties the selection.
C25_SelectAllTogglesDisplayed ==
    [][toggleSelectAll =>
         IF DisplayedIds \subseteq selectedEntityIds
         THEN selectedEntityIds' = {}
         ELSE /\ selectedEntityIds' = DisplayedIds
              /\ Cardinality(selectedEntityIds') = Len(filteredEntities(low_usage, filterType))
      ]_allVars

\* C26: deletion is terminal for an entity: once delete_entity or the bulk
\* delete has removed the row with id e, no later step, be it the resolution
\* or the manual creation of an entity of the same name or a link request,
\* brings a row with id e back or stores a junction row that references e.
C26_DeletionIsTerminal ==
    /\ [](\A e \in DeletedIds : RowsOf(e) = {})
    /\ [][\A e \in DeletedIds :
             /\ e \notin DOMAIN entities'
             /\ \A r \in meeting_entities' : r[2] # e]_allVars

\* The entity with id 1 was deleted and an entity of its name exists again
\* under a later id, linked to a meeting.
C26_Witness ==
    /\ 1 \in DeletedIds
    /\ \E e \in DOMAIN entities :
          /\ e > 1
          /\ entities[e].name = <<"Acme">>
          /\ RowsOf(e) # {}
    /\ resp.status = "deleted"
    /\ bulk.deleted > 0

\* C27: every id of a bulk-delete request sent from the check-up page is the
\* id of a row shown under the type filter that is active when the request
\* is sent; a change of the filter leaves no hidden row selected.
C27_OnlyDisplayedIdsAreSent ==
    /\ [][(bulkDeleteMutation.status # "pending"
            /\ bulkDeleteMutation'.status = "pending")
           => \A i \in 1..Len(bulkDeleteMutation'.ids) :
                 bulkDeleteMutation'.ids[i] \in DisplayedIds]_allVars
    /\ [][filterType' # filterType =>
             selectedEntityIds' \subseteq
                map_id(filteredEntities(low_usage', filterType'))]_allVars

\* C28: whenever the page is shown, the "Select all" checkbox is shown
\* checked if and only if the filtered list is not empty and every row of it
\* is selected.
C28_SelectAllCheckedIffAllDisplayedSelected ==
    query # "loading" =>
       (select_all_checked(selectedEntityIds, filteredEntities(low_usage, filterType))
          <=> /\ DisplayedIds # {}
              /\ DisplayedIds \subseteq selectedEntityIds)

\* C30: when a bulk delete sent from the check-up page succeeds, the
\* selection is emptied, the error is cleared and the low-usage query is
\* invalidated, so no id of the request stays selected; when it fails, the
\* selection is left as it is and an error message is set.
C30_BulkDeleteOutcome ==
    /\ [][bulkDeleteMutation_onSuccess =>
             /\ selectedEntityIds' = {}
             /\ error' = None
             /\ query' = "stale"
             /\ \A i \in 1..Len(bulkDeleteMutation.ids) :
                   bulkDeleteMutation.ids[i] \notin selectedEntityIds']_allVars
    /\ [][(\E data \in {NoResponseData, ValidationError} :
              bulkDeleteMutation_onError(data)) =>
             /\ selectedEntityIds' = selectedEntityIds
             /\ error' \notin {None, ""}
             /\ query' = query]_allVars
    /\ [][(bulkDeleteMutation.status = "pending"
            /\ bulkDeleteMutation'.status = "idle") =>
             \/ bulkDeleteMutation_onSuccess
             \/ \E data \in {NoResponseData, ValidationError} :
                   bulkDeleteMutation_onError(data)]_allVars

\* A bulk delete succeeded and invalidated the query; before the refetch a
\* row was selected again and a second bulk delete failed, leaving its error
\* and the selection.
C30_Witness ==
    /\ bulkDeleteMutation.status = "idle"
    /\ query = "stale"
    /\ DeletedIds # {}
    /\ selectedEntityIds # {}
    /\ error = "Failed to delete entities"

\* C29: in the create-and-add flow of the meeting page the association
\* request is issued by the success of the creation and by nothing else of
\* the flow, for the id the creation returned and the meeting the page
\* shows; a failed creation issues no association request and sets an error.
C29_AddAfterCreate ==
    /\ [][createEntityMutation_onSuccess =>
             /\ meetingDetail.createEntityMutation.response.status = "ok"
             /\ meetingDetail'.addRequests \ meetingDetail.addRequests \subseteq
                   {[meetingId |-> meetingDetail.id,
                     entityId |-> meetingDetail.createEntityMutation.response.id]}
             /\ meetingDetail'.addEntityMutation.variables =
                   [meetingId |-> meetingDetail.id,
                    entityId |-> meetingDetail.createEntityMutation.response.id]
             /\ meetingDetail'.addEntityMutation.variables \in meetingDetail'.addRequests
             /\ meetingDetail.createEntityMutation.response.id \in AllocatedIds
             /\ meetingDetail.id \in MeetingIds]_allVars
    /\ [][createEntityMutation_onError =>
             /\ meetingDetail'.addRequests = meetingDetail.addRequests
             /\ meetingDetail'.addEntityMutation = meetingDetail.addEntityMutation
             /\ meetingDetail'.error # None]_allVars
    /\ [][(meetingDetail.createEntityMutation.status = "pending"
            /\ meetingDetail'.addRequests # meetingDetail.addRequests)
           => \/ createEntityMutation_onSuccess
              \/ \E f \in EntityIds : handleAddEntity(f)
              \/ \E m \in MeetingIds, e \in 0..MaxEntityId :
                    meetingApi_addEntity([meetingId |-> m, entityId |-> e])]_allVars

\* A creation succeeded, the association request for the id it returned was
\* served, and the new entity is linked to the meeting the page shows.
C29_Witness ==
    /\ meetingDetail.createEntityMutation.status = "success"
    /\ meetingDetail.addEntityMutation.status = "success"
    /\ meetingDetail.createEntityMutation.response.id =
          meetingDetail.addEntityMutation.variables.entityId
    /\ <<meetingDetail.id, meetingDetail.createEntityMutation.response.id>>
          \in meeting_entities
    /\ entities[meetingDetail.createEntityMutation.response.id].name = <<"Bob">>

====
